---- MODULE Spec2Model ----
(***************************************************************************)
(* Model of translate_languages.py: the source reader, the interactive     *)
(* language selector, the translation client with its retry loop, the      *)
(* result writer and the orchestration in main().                          *)
(*                                                                         *)
(* A Python str is a sequence of one-character tokens.  Two tokens stand   *)
(* for longer pieces of text that never split: "SL" is the text            *)
(* "Source Language" and "sl" its lower-cased form "source language".      *)
(* The full-width punctuation marks are written by their code points.      *)
(***************************************************************************)
EXTENDS Integers, Sequences, FiniteSets, TLC

(* ------------------------------ bounds ------------------------------- *)
MaxTextLen == 2
MaxCompletionLen == 3
MaxLineLen == 3
MaxLines == 3
MaxRecords == 10
MaxPrompts == 3

(* ------------------------- program constants ------------------------- *)
max_retries == 3
BackoffUnit == 2
RateLimitEvery == 5
RateLimitSleep == 1

(* ------------------------------ strings ------------------------------ *)
Whitespace == {" ", "\t"}

Last(s) == s[Len(s)]

Front(s) == SubSeq(s, 1, Len(s) - 1)

RECURSIVE lstrip(_)
lstrip(s) ==
  IF s = <<>> THEN s
  ELSE IF Head(s) \in Whitespace THEN lstrip(Tail(s)) ELSE s

RECURSIVE rstrip(_)
rstrip(s) ==
  IF s = <<>> THEN s
  ELSE IF Last(s) \in Whitespace THEN rstrip(Front(s)) ELSE s

strip(s) == rstrip(lstrip(s))

LowerChar(c) ==
  CASE c = "SL" -> "sl"
    [] c = "A" -> "a"
    [] OTHER -> c

lower(s) == [k \in 1..Len(s) |-> LowerChar(s[k])]

endswith(s, c) == s # <<>> /\ Last(s) = c

replace(s, c) == SelectSeq(s, LAMBDA x : x # c)

Strings(alphabet, n) == UNION {[1..k -> alphabet] : k \in 0..n}

(* ------------------------ language directory ------------------------- *)
LANGUAGE_CODES == [c \in {<<"en">>, <<"zh">>} |->
                     IF c = <<"en">> THEN <<"Yingwen">> ELSE <<"Zhongwen">>]

REVERSE_LANGUAGE_CODES ==
  [n \in {LANGUAGE_CODES[c] : c \in DOMAIN LANGUAGE_CODES} |->
     CHOOSE c \in DOMAIN LANGUAGE_CODES : LANGUAGE_CODES[c] = n]

(* --------------------------- source reader --------------------------- *)
\* the literal 'source language,' of lines 118 and 134
HeaderLine == <<"sl", ",">>

\* a cleanup that removes every trailing comma
strip_trailing_comma_all(s) ==
  LET keep == {k \in 1..Len(s) : \E j \in k..Len(s) : s[j] # ","}
  IN  SubSeq(s, 1, Cardinality(keep))

\* lines 122-123: if cleaned_line.endswith(','): cleaned_line = cleaned_line[:-1]
strip_trailing_comma(s) == IF endswith(s, ",") THEN Front(s) ELSE s

\* lines 118-126: one iteration of the loop; what it appends to processed_lines
process_line(line) ==
  IF lower(strip(line)) = HeaderLine THEN <<>>
  ELSE LET cleaned_line == strip_trailing_comma(strip(line))
       IN  IF cleaned_line # <<>> THEN <<cleaned_line>> ELSE <<>>

\* lines 115-127 (and the same loop at 132-141 after the GBK fallback)
RECURSIVE process_lines(_)
process_lines(lines) ==
  IF lines = <<>> THEN <<>>
  ELSE process_line(Head(lines)) \o process_lines(Tail(lines))

\* lines 105-149
read_source_file(lines) ==
  LET languages == process_lines(lines)
  IN  IF languages = <<>> THEN <<>> ELSE languages

\* lines 151-159: the rows csv.writer is given, zip() stopping at the shorter list
HeaderRow == <<"Original Text", "Source Language", "Translated Text">>

write_translated_file(original_languages, translated, src_language) ==
  LET n == IF Len(original_languages) < Len(translated)
             THEN Len(original_languages) ELSE Len(translated)
  IN  <<HeaderRow>> \o
        [k \in 1..n |-> <<original_languages[k], src_language, translated[k]>>]

(* ------------------------- language selector ------------------------- *)
\* an input used as typed, without .strip()
normalize_input_raw(inp) == inp

\* lines 38 and 56: input(...).strip()
normalize_input(inp) == strip(inp)

\* lines 40-45 and 58-63: the pair returned for a stripped input, or None
None == <<"None">>

lookup_language(v) ==
  IF v \in DOMAIN LANGUAGE_CODES THEN <<v, LANGUAGE_CODES[v]>>
  ELSE IF v \in DOMAIN REVERSE_LANGUAGE_CODES THEN <<REVERSE_LANGUAGE_CODES[v], v>>
  ELSE None

\* a rate limiter that skips the pause after the last record
should_pause_not_last(k, n) == k % RateLimitEvery = 0 /\ k < n

\* line 194: if i % 5 == 0
should_pause(k, n) == k % RateLimitEvery = 0

(* ------------------------ translation client ------------------------- *)
Punctuation == {".", ",", "!", "?", ";", ":",
                "U+FF0C", "U+3002", "U+FF01", "U+FF1F", "U+FF1B", "U+FF1A"}

\* lines 92-94: the cleaning of the first completion's content
clean_result(content) ==
  LET r1 == strip(content)
      r2 == strip(replace(replace(r1, "\""), "'"))
  IN  SelectSeq(r2, LAMBDA char : ~(char \in Punctuation))

\* a guard that forgets the whitespace-only case
is_blank_empty_only(t) == t = <<>>

\* line 69: if not text or text.strip() == ''
is_blank(t) == t = <<>> \/ strip(t) = <<>>

\* a backoff that does not grow with the attempt
wait_time_constant(a) == BackoffUnit

\* line 98: wait_time = (attempt + 1) * 2
wait_time(a) == (a + 1) * BackoffUnit

\* an off-by-one in the last-attempt test
may_retry_off_by_one(a) == a < max_retries

\* line 97: attempt < max_retries - 1
may_retry(a) == a < max_retries - 1

VARIABLES
  pc,                   \* position of main(); "unit" in the unit harnesses
  file,                 \* decoded lines of language.csv
  source_languages,     \* main: the records read_source_file returned
  source_code, source_language, target_code, target_language,
  i,                    \* main: loop counter of enumerate(source_languages, 1)
  translated_languages, \* main: results appended so far
  call_log,             \* history: <<text, returned value>> of each translate_to_language call
  rate_sleeps,          \* history: <<i, seconds>> of each time.sleep at line 195
  output,               \* the output file: NoFile or <<name, rows>>
  error_printed, keypresses,
  spc,                  \* selector position: "idle", "prompt", "returned"
  prompts,              \* number of input() calls of the running selector call
  inputs,               \* history: the raw inputs of the running selector call
  sel_result,           \* the pair the selector returned
  tpc,                  \* translate_to_language position
  text,                 \* its text argument
  attempt,              \* its loop variable
  result,               \* its return value
  calls,                \* number of client.chat.completions.create calls of this call
  sleeps,               \* history: durations of time.sleep of this call, in order
  responses             \* history: outcome of each call: Failure or the content

mainVars == <<pc, file, source_languages, source_code, source_language,
              target_code, target_language, i, translated_languages,
              call_log, rate_sleeps, output, error_printed, keypresses>>
selVars == <<spc, prompts, inputs, sel_result>>
trVars == <<tpc, text, attempt, result, calls, sleeps, responses>>
vars == <<mainVars, selVars, trVars>>

NoFile == <<"NoFile">>
Failure == <<"Exception">>

TextAlphabet == {"a", " ", "\t"}
CompletionAlphabet == {"a", " ", "'", "\"", ".", "U+FF0C"}
Texts == Strings(TextAlphabet, MaxTextLen)
Completions ==
  IF pc = "unit" THEN Strings(CompletionAlphabet, MaxCompletionLen)
  ELSE {<<"\"", "t", ".", "\"">>}

\* lines 69-70 and the entry of the retry loop at line 83
translate_entry ==
  /\ tpc = "entry"
  /\ IF is_blank(text)
       THEN /\ result' = text
            /\ tpc' = "returned"
            /\ UNCHANGED attempt
       ELSE /\ attempt' = 0
            /\ tpc' = "call"
            /\ UNCHANGED result
  /\ UNCHANGED <<text, calls, sleeps, responses>>
  /\ UNCHANGED <<mainVars, selVars>>

\* lines 85-95: the call returns a response
translate_success(content) ==
  /\ tpc = "call"
  /\ attempt < max_retries
  /\ calls' = calls + 1
  /\ responses' = Append(responses, content)
  /\ result' = clean_result(content)
  /\ tpc' = "returned"
  /\ UNCHANGED <<text, attempt, sleeps>>
  /\ UNCHANGED <<mainVars, selVars>>

\* lines 96-103: what the except clause does after a failed attempt a
on_failure(a) ==
  IF may_retry(a)
    THEN /\ sleeps' = Append(sleeps, wait_time(a))
         /\ attempt' = a + 1
         /\ UNCHANGED <<result, tpc>>
    ELSE /\ result' = text
         /\ tpc' = "returned"
         /\ UNCHANGED <<sleeps, attempt>>

\* lines 85-91 and 96-103: the call raises
translate_failure ==
  /\ tpc = "call"
  /\ attempt < max_retries
  /\ calls' = calls + 1
  /\ responses' = Append(responses, Failure)
  /\ on_failure(attempt)
  /\ UNCHANGED text
  /\ UNCHANGED <<mainVars, selVars>>

(* ------------------------- language selector ------------------------- *)
SelectorInputs ==
  {<<"en">>, <<" ", "zh", " ">>, <<"Yingwen">>, <<"EN">>, <<>>, <<"en", " ", "zh">>}

\* lines 37-45 and 55-63: one iteration of the while True loop
get_language_input(inp) ==
  /\ spc = "prompt"
  /\ prompts' = prompts + 1
  /\ inputs' = Append(inputs, inp)
  /\ LET found == lookup_language(normalize_input(inp))
     IN  IF found # None
           THEN /\ sel_result' = found
                /\ spc' = "returned"
           ELSE /\ prompts + 1 < MaxPrompts
                /\ UNCHANGED <<sel_result, spc>>

\* lines 47-63
get_source_language(inp) ==
  /\ pc = "get_source"
  /\ get_language_input(inp)
  /\ UNCHANGED <<mainVars, trVars>>

\* lines 29-45
get_target_language(inp) ==
  /\ pc = "get_target"
  /\ get_language_input(inp)
  /\ UNCHANGED <<mainVars, trVars>>

(* ------------------------------- main -------------------------------- *)
RecordLetters == <<"a", "b", "c">>

RecordLine(k) ==
  <<RecordLetters[(k % 3) + 1]>> \o (IF k % 2 = 0 THEN <<",">> ELSE <<" ">>)

\* language.csv with a header line, a blank line and n text lines
MainFile(n) == <<<<"SL", ",">>, <<" ">>>> \o [k \in 1..n |-> RecordLine(k)]

MainFiles == {MainFile(n) : n \in 0..MaxRecords}

trIdle ==
  /\ tpc' = "idle" /\ text' = <<>> /\ attempt' = 0 /\ result' = None
  /\ calls' = 0 /\ sleeps' = <<>> /\ responses' = <<>>

\* lines 164-167: client = OpenAI(...)
main_setup ==
  /\ pc = "start"
  /\ pc' = "read"
  /\ UNCHANGED <<file, source_languages, source_code, source_language,
                 target_code, target_language, i, translated_languages,
                 call_log, rate_sleeps, output, error_printed, keypresses>>
  /\ UNCHANGED <<selVars, trVars>>

\* a main that goes on to the language prompts whatever the reader returned
main_read_no_empty_check ==
  /\ pc = "read"
  /\ source_languages' = read_source_file(file)
  /\ pc' = "get_source"
  /\ spc' = "prompt" /\ prompts' = 0 /\ inputs' = <<>> /\ sel_result' = None
  /\ UNCHANGED <<file, source_code, source_language, target_code,
                 target_language, i, translated_languages, call_log,
                 rate_sleeps, output, error_printed, keypresses>>
  /\ UNCHANGED trVars

\* lines 170-180: read the file, stop on an empty result, else ask for the source language
main_read ==
  /\ pc = "read"
  /\ source_languages' = read_source_file(file)
  /\ IF source_languages' = <<>>
       THEN /\ pc' = "returned_empty"
            /\ UNCHANGED selVars
       ELSE /\ pc' = "get_source"
            /\ spc' = "prompt" /\ prompts' = 0 /\ inputs' = <<>>
            /\ sel_result' = None
  /\ UNCHANGED <<file, source_code, source_language, target_code,
                 target_language, i, translated_languages, call_log,
                 rate_sleeps, output, error_printed, keypresses>>
  /\ UNCHANGED trVars

\* lines 180-181: source_code, source_language = ...; then get_target_language()
main_source_selected ==
  /\ pc = "get_source" /\ spc = "returned"
  /\ source_code' = sel_result[1]
  /\ source_language' = sel_result[2]
  /\ pc' = "get_target"
  /\ spc' = "prompt" /\ prompts' = 0 /\ inputs' = <<>> /\ sel_result' = None
  /\ UNCHANGED <<file, source_languages, target_code, target_language, i,
                 translated_languages, call_log, rate_sleeps, output,
                 error_printed, keypresses>>
  /\ UNCHANGED trVars

\* lines 181-184: target_code, target_language = ...; translated_languages = []
main_target_selected ==
  /\ pc = "get_target" /\ spc = "returned"
  /\ target_code' = sel_result[1]
  /\ target_language' = sel_result[2]
  /\ translated_languages' = <<>>
  /\ i' = 0
  /\ pc' = "loop"
  /\ spc' = "idle" /\ prompts' = 0 /\ inputs' = <<>> /\ sel_result' = None
  /\ UNCHANGED <<file, source_languages, source_code, source_language,
                 call_log, rate_sleeps, output, error_printed, keypresses>>
  /\ UNCHANGED trVars

\* lines 186-189: the next record is taken and translate_to_language is called
main_loop_next ==
  /\ pc = "loop"
  /\ i < Len(source_languages)
  /\ i' = i + 1
  /\ pc' = "translating"
  /\ tpc' = "entry" /\ text' = source_languages[i + 1]
  /\ attempt' = 0 /\ result' = None
  /\ calls' = 0 /\ sleeps' = <<>> /\ responses' = <<>>
  /\ UNCHANGED <<file, source_languages, source_code, source_language,
                 target_code, target_language, translated_languages,
                 call_log, rate_sleeps, output, error_printed, keypresses>>
  /\ UNCHANGED selVars

\* a loop that keeps only the translations that differ from their source
main_append_skip_untranslated ==
  /\ pc = "translating" /\ tpc = "returned"
  /\ translated_languages' =
       IF result = text THEN translated_languages
       ELSE Append(translated_languages, result)
  /\ call_log' = Append(call_log, <<text, result>>)
  /\ rate_sleeps' =
       IF should_pause(i, Len(source_languages))
         THEN Append(rate_sleeps, <<i, RateLimitSleep>>)
         ELSE rate_sleeps
  /\ pc' = "loop"
  /\ trIdle
  /\ UNCHANGED <<file, source_languages, source_code, source_language,
                 target_code, target_language, i, output, error_printed,
                 keypresses>>
  /\ UNCHANGED selVars

\* lines 189-195: the result is appended; every 5th record is followed by sleep(1)
main_append ==
  /\ pc = "translating" /\ tpc = "returned"
  /\ translated_languages' = Append(translated_languages, result)
  /\ call_log' = Append(call_log, <<text, result>>)
  /\ rate_sleeps' =
       IF should_pause(i, Len(source_languages))
         THEN Append(rate_sleeps, <<i, RateLimitSleep>>)
         ELSE rate_sleeps
  /\ pc' = "loop"
  /\ trIdle
  /\ UNCHANGED <<file, source_languages, source_code, source_language,
                 target_code, target_language, i, output, error_printed,
                 keypresses>>
  /\ UNCHANGED selVars

\* line 198: output_file = f'translated_{source_code}_to_{target_code}.csv'
output_file == <<"translated_">> \o source_code \o <<"_to_">> \o target_code \o <<".csv">>

\* lines 197-200: the loop is over and the output file is written
main_write ==
  /\ pc = "loop"
  /\ i = Len(source_languages)
  /\ output' = <<output_file,
                 write_translated_file(source_languages, translated_languages,
                                       source_language)>>
  /\ pc' = "wait_key"
  /\ UNCHANGED <<file, source_languages, source_code, source_language,
                 target_code, target_language, i, translated_languages,
                 call_log, rate_sleeps, error_printed, keypresses>>
  /\ UNCHANGED <<selVars, trVars>>

\* line 203: input("...") after a completed run
main_wait_key ==
  /\ pc = "wait_key"
  /\ keypresses' = keypresses + 1
  /\ pc' = "finished"
  /\ UNCHANGED <<file, source_languages, source_code, source_language,
                 target_code, target_language, i, translated_languages,
                 call_log, rate_sleeps, output, error_printed>>
  /\ UNCHANGED <<selVars, trVars>>

\* the places of the try block where a statement other than the remote call
\* can raise: the client constructor, open(), input(), print()
CanRaise ==
  \/ pc \in {"start", "read", "wait_key"}
  \/ pc \in {"get_source", "get_target"} /\ spc = "prompt"
  \/ pc = "loop" /\ i < Len(source_languages)

\* line 205: an exception of the try block reaches the except clause
main_raise ==
  /\ CanRaise
  /\ pc' = "handler"
  /\ UNCHANGED <<file, source_languages, source_code, source_language,
                 target_code, target_language, i, translated_languages,
                 call_log, rate_sleeps, output, error_printed, keypresses>>
  /\ UNCHANGED <<selVars, trVars>>

\* lines 155-159 and 205: write_translated_file raises; the file is not
\* opened, or holds the rows written before the failure
main_write_raise ==
  /\ pc = "loop"
  /\ i = Len(source_languages)
  /\ LET rows == write_translated_file(source_languages, translated_languages,
                                       source_language)
     IN  \E n \in 0..Len(rows) :
           output' = IF n = 0 THEN output ELSE <<output_file, SubSeq(rows, 1, n - 1)>>
  /\ pc' = "handler"
  /\ UNCHANGED <<file, source_languages, source_code, source_language,
                 target_code, target_language, i, translated_languages,
                 call_log, rate_sleeps, error_printed, keypresses>>
  /\ UNCHANGED <<selVars, trVars>>

\* line 206: print(f"... {e}")
main_handler_print ==
  /\ pc = "handler"
  /\ error_printed' = TRUE
  /\ pc' = "handler_wait"
  /\ UNCHANGED <<file, source_languages, source_code, source_language,
                 target_code, target_language, i, translated_languages,
                 call_log, rate_sleeps, output, keypresses>>
  /\ UNCHANGED <<selVars, trVars>>

\* a handler that exits without waiting
main_handler_key_no_wait ==
  /\ pc = "handler_wait"
  /\ pc' = "finished_error"
  /\ UNCHANGED <<file, source_languages, source_code, source_language,
                 target_code, target_language, i, translated_languages,
                 call_log, rate_sleeps, output, error_printed, keypresses>>
  /\ UNCHANGED <<selVars, trVars>>

\* line 208: input("...") in the except clause, then main returns
main_handler_key ==
  /\ pc = "handler_wait"
  /\ keypresses' = keypresses + 1
  /\ pc' = "finished_error"
  /\ UNCHANGED <<file, source_languages, source_code, source_language,
                 target_code, target_language, i, translated_languages,
                 call_log, rate_sleeps, output, error_printed>>
  /\ UNCHANGED <<selVars, trVars>>

(* --------------------------- specifications -------------------------- *)
InitMainIdle ==
  /\ source_languages = <<>>
  /\ source_code = None /\ source_language = None
  /\ target_code = None /\ target_language = None
  /\ i = 0
  /\ translated_languages = <<>>
  /\ call_log = <<>>
  /\ rate_sleeps = <<>>
  /\ output = NoFile
  /\ error_printed = FALSE
  /\ keypresses = 0

InitSelIdle ==
  /\ spc = "idle" /\ prompts = 0 /\ inputs = <<>> /\ sel_result = None

InitTrIdle ==
  /\ tpc = "idle" /\ text = <<>> /\ attempt = 0 /\ result = None
  /\ calls = 0 /\ sleeps = <<>> /\ responses = <<>>

\* main() is started on some language.csv
Init ==
  /\ pc = "start"
  /\ file \in MainFiles
  /\ InitMainIdle
  /\ InitSelIdle
  /\ InitTrIdle

Next ==
  \/ main_setup
  \/ main_read
  \/ \E inp \in SelectorInputs : get_source_language(inp)
  \/ main_source_selected
  \/ \E inp \in SelectorInputs : get_target_language(inp)
  \/ main_target_selected
  \/ main_loop_next
  \/ translate_entry
  \/ \E content \in Completions : translate_success(content)
  \/ translate_failure
  \/ main_append
  \/ main_write
  \/ main_wait_key
  \/ main_raise
  \/ main_write_raise
  \/ main_handler_print
  \/ main_handler_key

Spec == Init /\ [][Next]_vars

\* translate_to_language called directly on any text
InitTranslate ==
  /\ pc = "unit"
  /\ file = <<>>
  /\ InitMainIdle
  /\ InitSelIdle
  /\ tpc = "entry" /\ text \in Texts /\ attempt = 0 /\ result = None
  /\ calls = 0 /\ sleeps = <<>> /\ responses = <<>>

NextTranslate ==
  \/ translate_entry
  \/ \E content \in Completions : translate_success(content)
  \/ translate_failure

SpecTranslate == InitTranslate /\ [][NextTranslate]_vars

\* read_source_file called directly on any file
LineAlphabet == {" ", ",", "a", "sl", "SL"}
Lines == Strings(LineAlphabet, MaxLineLen)
SampleLines == {<<"sl", ",">>, <<"a", ",">>, <<" ">>, <<"a">>}

\* a file of n lines: l at position p, lines of SampleLines elsewhere
ReaderFile(n, p, l, s) == [k \in 1..n |-> IF k = p THEN l ELSE s[k]]

\* the files of at most MaxLines lines with at most one line outside SampleLines
InitReader ==
  /\ pc = "reader"
  /\ \E n \in 0..MaxLines : \E p \in 0..n :
       \E l \in Lines : \E s \in [1..n -> SampleLines] :
         file = ReaderFile(n, p, l, s)
  /\ InitMainIdle
  /\ InitSelIdle
  /\ InitTrIdle

reader_call ==
  /\ pc = "reader"
  /\ source_languages' = read_source_file(file)
  /\ pc' = "reader_done"
  /\ UNCHANGED <<file, source_code, source_language, target_code,
                 target_language, i, translated_languages, call_log,
                 rate_sleeps, output, error_printed, keypresses>>
  /\ UNCHANGED <<selVars, trVars>>

NextReader == reader_call

SpecReader == InitReader /\ [][NextReader]_vars

(* ===================== properties of the translation client ========== *)
IsWhitespaceOnly(t) == \A k \in 1..Len(t) : t[k] \in Whitespace

AllFailed(rs) == \A k \in 1..Len(rs) : rs[k] = Failure

\* C1: for a text that is neither empty nor whitespace-only, once three
\* calls have failed the function has returned the original text, having
\* made exactly 3 calls and slept exactly twice, 2 s and then 4 s, with no
\* sleep after the third failure; it returns, it does not raise.
C1_ThreeFailuresReturnOriginal ==
  (~IsWhitespaceOnly(text) /\ Len(responses) = 3 /\ AllFailed(responses))
    => /\ tpc = "returned"
       /\ calls = 3
       /\ sleeps = <<2, 4>>
       /\ result = text

C1_Witness ==
  /\ pc = "unit"
  /\ tpc = "returned"
  /\ text = <<"a", " ">>
  /\ responses = <<Failure, Failure, Failure>>
  /\ result = text

\* C2: for an empty or whitespace-only text the function returns its input
\* unchanged, and no call to the endpoint and no sleep ever happens.
C2_BlankTextNoCall ==
  IsWhitespaceOnly(text)
    => /\ calls = 0
       /\ sleeps = <<>>
       /\ responses = <<>>
       /\ tpc \in {"entry", "returned"}
       /\ (tpc = "returned" => result = text)

C2_Witness ==
  /\ pc = "unit"
  /\ tpc = "returned"
  /\ text = <<" ", "\t">>
  /\ result = text
  /\ calls = 0

\* C10: at most 3 calls are made and none after a successful one; when
\* attempt k is the first success the function has returned after exactly k
\* calls, the sleeps are 2*j seconds after each failed attempt j < k, in
\* that order, and the value returned is the cleaned completion of attempt k.
C10_StopsAtFirstSuccess ==
  /\ calls <= 3
  /\ calls = Len(responses)
  /\ \A k \in 1..Len(responses) :
       /\ k < Len(responses) => responses[k] = Failure
       /\ responses[k] # Failure
            => /\ tpc = "returned"
               /\ calls = k
               /\ sleeps = [j \in 1..(k - 1) |-> 2 * j]
               /\ result = clean_result(responses[k])

C10_Witness ==
  /\ pc = "unit"
  /\ tpc = "returned"
  /\ Len(responses) = 3
  /\ responses[3] = <<" ", "a", ".">>
  /\ sleeps = <<2, 4>>
  /\ result = <<"a">>
  /\ result # text

RECURSIVE StripEnclosingQuotes(_)
StripEnclosingQuotes(s) ==
  IF s = <<>> THEN s
  ELSE IF Head(s) \in {"\"", "'"} THEN StripEnclosingQuotes(Tail(s))
  ELSE IF Last(s) \in {"\"", "'"} THEN StripEnclosingQuotes(Front(s))
  ELSE s

\* The cleaning the specification describes: trim, strip the quote
\* characters that enclose the text (and the whitespace they enclosed),
\* then remove every punctuation mark of the fixed set.
ReferenceCleaning(content) ==
  SelectSeq(strip(StripEnclosingQuotes(strip(content))),
            LAMBDA c : c \notin Punctuation)

\* C6: on a successful call the value returned is the completion trimmed,
\* with its enclosing quote characters stripped and every punctuation mark
\* of the fixed set removed.
C6_ReturnsReferenceCleaning ==
  (tpc = "returned" /\ responses # <<>> /\ Last(responses) # Failure)
    => result = ReferenceCleaning(Last(responses))

(* ===================== properties of the source reader =============== *)
\* the text between the first and the last non-whitespace character
Trimmed(l) ==
  LET solid == {k \in 1..Len(l) : l[k] \notin Whitespace}
  IN  IF solid = {} THEN <<>>
      ELSE SubSeq(l, CHOOSE k \in solid : \A j \in solid : k <= j,
                     CHOOSE k \in solid : \A j \in solid : j <= k)

IsHeaderLine(l) == lower(Trimmed(l)) = <<"sl", ",">>

\* trimmed, then without its last character when that is a comma
Cleaned(l) ==
  LET t == Trimmed(l)
  IN  IF t # <<>> /\ t[Len(t)] = "," THEN SubSeq(t, 1, Len(t) - 1) ELSE t

KeptLines(f) == {k \in 1..Len(f) : ~IsHeaderLine(f[k]) /\ Cleaned(f[k]) # <<>>}

\* C4: the reader returns, in the original order, the cleaned form of
\* exactly the lines that are not the header line and are not empty after
\* the cleanup (trim, then drop one trailing comma); nothing else is
\* dropped, reordered or altered.
C4_ReaderReturnsCleanedLines ==
  pc = "reader_done"
    => /\ Len(source_languages) = Cardinality(KeptLines(file))
       /\ \A k \in KeptLines(file) :
            source_languages[Cardinality({j \in KeptLines(file) : j <= k})]
              = Cleaned(file[k])

C4_Witness ==
  /\ pc = "reader_done"
  /\ file = <<<<"sl", ",">>, <<"a", ",", ",">>, <<" ">>>>
  /\ source_languages = <<<<"a", ",">>>>

(* ===================== properties of the language selector =========== *)
Recognized(inp) ==
  Trimmed(inp) \in (DOMAIN LANGUAGE_CODES) \cup (DOMAIN REVERSE_LANGUAGE_CODES)

CanonicalPair(inp) ==
  IF Trimmed(inp) \in DOMAIN LANGUAGE_CODES
    THEN <<Trimmed(inp), LANGUAGE_CODES[Trimmed(inp)]>>
    ELSE <<REVERSE_LANGUAGE_CODES[Trimmed(inp)], Trimmed(inp)>>

\* C5: a selector prompts once per input; it has returned exactly when the
\* last input is the first recognized one, and then with the canonical
\* (code, name) pair of that input; after an unrecognized input it is
\* prompting again, neither returned nor failed.
C5_SelectorReturnsAtFirstRecognized ==
  /\ spc \in {"idle", "prompt", "returned"}
  /\ prompts = Len(inputs)
  /\ \A k \in 1..Len(inputs) : k < Len(inputs) => ~Recognized(inputs[k])
  /\ spc = "returned"
       <=> (inputs # <<>> /\ Recognized(inputs[Len(inputs)]))
  /\ spc = "returned" => sel_result = CanonicalPair(inputs[Len(inputs)])
  /\ (inputs # <<>> /\ ~Recognized(inputs[Len(inputs)])) => spc = "prompt"

C5_Witness ==
  /\ pc = "get_target"
  /\ spc = "returned"
  /\ inputs = <<<<"EN">>, <<>>, <<"Yingwen">>>>
  /\ prompts = MaxPrompts
  /\ sel_result = <<<<"en">>, <<"Yingwen">>>>

(* ===================== properties of main ============================ *)
\* C3: once the result writer has run, one translation was produced per
\* record, in input order, and the file holds the header row and then, for
\* each record i, the row (record i, source language name, translation of
\* record i), whatever calls failed.
C3_OneRowPerRecord ==
  pc \in {"wait_key", "finished"}
    => /\ Len(call_log) = Len(source_languages)
       /\ \A k \in 1..Len(source_languages) : call_log[k][1] = source_languages[k]
       /\ source_language = LANGUAGE_CODES[source_code]
       /\ output # NoFile
       /\ Len(output[2]) = Len(source_languages) + 1
       /\ output[2][1] = <<"Original Text", "Source Language", "Translated Text">>
       /\ \A k \in 1..Len(source_languages) :
            output[2][k + 1] = <<source_languages[k], source_language, call_log[k][2]>>

C3_Witness ==
  /\ pc = "finished"
  /\ Len(source_languages) = 3
  /\ call_log[1][2] = call_log[1][1]
  /\ call_log[2][2] # call_log[2][1]
  /\ call_log[3][2] = call_log[3][1]
  /\ Len(output[2]) = 4

\* C7: the 1-second pauses of the loop are exactly those after the records
\* 5, 10, ... translated so far, and a completed run of N records has made
\* N \div 5 of them, the last record included when 5 divides N.
C7_PauseEveryFifthRecord ==
  /\ pc \in {"loop", "wait_key", "finished"}
       => rate_sleeps = [k \in 1..(Len(translated_languages) \div 5) |-> <<5 * k, 1>>]
  /\ pc = "translating"
       => rate_sleeps = [k \in 1..((i - 1) \div 5) |-> <<5 * k, 1>>]
  /\ pc \in {"wait_key", "finished"}
       => Len(rate_sleeps) = Len(source_languages) \div 5

C7_Witness ==
  /\ pc = "finished"
  /\ Len(source_languages) = 5
  /\ rate_sleeps = <<<<5, 1>>>>

InHandler == pc \in {"handler", "handler_wait", "finished_error"}

\* what a step of the run may do once the except clause of main is involved
C8_HandlerStep ==
  /\ InHandler => UNCHANGED <<calls, responses, tpc, output>>
  /\ pc = "handler" => pc' = "handler_wait" /\ error_printed' /\ UNCHANGED keypresses
  /\ pc = "handler_wait" => pc' = "finished_error" /\ keypresses' = keypresses + 1
  /\ pc = "finished_error" => UNCHANGED vars
  /\ (~InHandler /\ InHandler') => (pc' = "handler" /\ UNCHANGED <<calls, responses>>)
  /\ (Len(responses') = Len(responses) + 1 /\ responses'[Len(responses')] = Failure)
       => (pc' = pc /\ ~InHandler')

\* C8: once an exception has reached the top-level handler no further call
\* to the endpoint and no further file write happens; the error is printed,
\* then one keypress is awaited, then the run is over; a failed call to the
\* endpoint never enters the handler.
C8_TopLevelHandler == [][C8_HandlerStep]_vars

C8_Witness ==
  /\ pc = "finished_error"
  /\ error_printed
  /\ keypresses = 1
  /\ Len(call_log) = 2
  /\ call_log[1][2] = call_log[1][1]

\* C9: when the reader returns no record the run ends at once: no language
\* prompt, no call to the endpoint, no output file.
C9_EmptyInputEndsRun ==
  KeptLines(file) = {}
    => /\ pc \in {"start", "read", "returned_empty"} \/ InHandler
       /\ spc = "idle" /\ prompts = 0 /\ inputs = <<>>
       /\ tpc = "idle" /\ calls = 0 /\ responses = <<>>
       /\ call_log = <<>>
       /\ output = NoFile

C9_Witness ==
  /\ pc = "returned_empty"
  /\ file # <<>>
  /\ source_languages = <<>>
  /\ output = NoFile

====
